---- MODULE Spec2Model ----
(***************************************************************************)
(* Copo payment-gateway adapter: request signing, callback verification    *)
(* and callback reconciliation against the deposit and withdraw stores.    *)
(*                                                                         *)
(* Strings are TLA+ strings; an MD5 digest is modelled as an injective     *)
(* tagging of the hashed string.  Every await on the database or on the    *)
(* provider is a separate step, so handlers interleave exactly where the   *)
(* Node.js event loop lets them.                                           *)
(***************************************************************************)
EXTENDS Integers, Sequences, FiniteSets, TLC

\* ------------------------------------------------------------------ bounds
MaxClock == 1        \* Date.now() ranges over 0..MaxClock
NumReq   == 1        \* creation requests (deposit or withdraw) ever received
NumCb    == 2        \* callback deliveries ever received
WideReq  == 1        \* creation requests of the wide-input specification
WideCb   == 1        \* callback deliveries of the wide-input specification
MaxEntries == 3      \* entries of a parameter mapping handed to the Signer
PairReq  == 2        \* creation requests of the two-request specification
PairCb   == 1        \* callback deliveries of the two-request specification

\* ------------------------------------------------------- input alphabets
Sites         == {"a"}
WideSites     == {"a", "xWITHDRAW"}
SignKeys      == {"K"}
OtherKey      == "X"           \* a key no request originator supplied
DepositSignKeys == SignKeys \cup {""}   \* params.signKey of a deposit request
Amounts       == {100}
OrderStatuses == {"0", "1", "2", "3", "9"}
OrderAmounts  == {"100.00"}
WideOrderAmounts == {"100.00", "99.50"}
UnknownOrderNo == "COPz9"
BadSign        == "bad"
None           == "<none>"     \* an unset string field / undefined

\* ------------------------------------------------------ status constants
PENDING    == "PENDING"
PROCESSING == "PROCESSING"
SUCCESS    == "SUCCESS"
FAILED     == "FAILED"
Terminal   == {SUCCESS, FAILED}

\* CallbackStatusEnum
CB_SUCCESS        == "1"
CB_FAILED         == "2"
CB_PROCESSING     == "0"
CB_MANUAL_SUCCESS == "3"

\* a mapping that takes every code but the failure codes for success
isSuccessStatus_NotFailed(status) == status # CB_FAILED /\ status # CB_PROCESSING

\* isSuccessStatus without the manual-success code
isSuccessStatus_OnlyPaid(status) == status = CB_SUCCESS

isSuccessStatus(status) == status = CB_SUCCESS \/ status = CB_MANUAL_SUCCESS

\* ------------------------------------------------------- string helpers
\* an order that puts the lower-case letters before the upper-case ones
AsciiOrder_LowerFirst ==
  "&.0123456789:<=>_abcdefghijklmnopqrstuvwxyzABCDEFGHIJKLMNOPQRSTUVWXYZ"

\* The characters the model's strings use, in ascending ASCII order.
AsciiOrder == "&.0123456789:<=>ABCDEFGHIJKLMNOPQRSTUVWXYZ_abcdefghijklmnopqrstuvwxyz"

OrdTable ==
  [c \in {SubSeq(AsciiOrder, i, i) : i \in 1..Len(AsciiOrder)} |->
     CHOOSE i \in 1..Len(AsciiOrder) : SubSeq(AsciiOrder, i, i) = c]

\* charCodeAt, up to an order-preserving renumbering
Ord(c) == OrdTable[c]

\* a < b in the order of Array.prototype.sort() on strings (code units)
RECURSIVE StrLess(_, _)
StrLess(a, b) ==
  IF Len(b) = 0 THEN FALSE
  ELSE IF Len(a) = 0 THEN TRUE
  ELSE LET ca == Ord(SubSeq(a, 1, 1))
           cb == Ord(SubSeq(b, 1, 1))
       IN IF ca # cb THEN ca < cb
          ELSE StrLess(SubSeq(a, 2, Len(a)), SubSeq(b, 2, Len(b)))

LowerCase == "abcdefghijklmnopqrstuvwxyz"
UpperCase == "ABCDEFGHIJKLMNOPQRSTUVWXYZ"

\* String.prototype.toUpperCase
RECURSIVE ToUpper(_)
ToUpper(s) ==
  IF Len(s) = 0 THEN ""
  ELSE LET c == SubSeq(s, 1, 1)
           up == IF \E i \in 1..26 : SubSeq(LowerCase, i, i) = c
                 THEN LET i == CHOOSE j \in 1..26 : SubSeq(LowerCase, j, j) = c
                      IN SubSeq(UpperCase, i, i)
                 ELSE c
       IN up \o ToUpper(SubSeq(s, 2, Len(s)))

\* String.prototype.includes
Includes(s, sub) ==
  \E i \in 1..(Len(s) - Len(sub) + 1) : SubSeq(s, i, i + Len(sub) - 1) = sub

Digits == "0123456789"
IsDigit(c) == \E i \in 1..10 : SubSeq(Digits, i, i) = c
DigitVal(c) == (CHOOSE i \in 1..10 : SubSeq(Digits, i, i) = c) - 1

\* length of the leading run of decimal digits of s
RECURSIVE DigitRun(_)
DigitRun(s) ==
  IF Len(s) = 0 \/ ~IsDigit(SubSeq(s, 1, 1)) THEN 0
  ELSE 1 + DigitRun(SubSeq(s, 2, Len(s)))

RECURSIVE DigitsValue(_)
DigitsValue(s) ==
  IF Len(s) = 0 THEN 0
  ELSE 10 * DigitsValue(SubSeq(s, 1, Len(s) - 1)) + DigitVal(SubSeq(s, Len(s), Len(s)))

NaN == -1

\* parseFloat on unsigned decimal text, in hundredths; NaN when no number
\* starts the string or the argument is undefined.
ParseFloat(s) ==
  IF s = None THEN NaN
  ELSE LET n == DigitRun(s)
           rest == SubSeq(s, n + 1, Len(s))
           hasDot == Len(rest) > 0 /\ SubSeq(rest, 1, 1) = "."
           frac == IF hasDot THEN SubSeq(rest, 2, Len(rest)) ELSE ""
           m == DigitRun(frac)
           f2 == IF m = 0 THEN 0
                 ELSE IF m = 1 THEN 10 * DigitsValue(SubSeq(frac, 1, 1))
                 ELSE DigitsValue(SubSeq(frac, 1, 2))
       IN IF n = 0 /\ m = 0 THEN NaN
          ELSE 100 * DigitsValue(SubSeq(s, 1, n)) + f2

\* `x || 0` on a number: NaN and 0 are falsy
OrZero(x) == IF x = NaN THEN 0 ELSE x

\* ----------------------------------------------------------------- Signer
\* a filter that drops null and the sign entry but keeps empty strings
FilteredKeys_KeepsEmpty(params) ==
  {k \in DOMAIN params : params[k] # None /\ k # "sign"}

\* step 1 of generateSign: the keys that survive the filter
FilteredKeys(params) ==
  {k \in DOMAIN params : params[k] # "" /\ params[k] # None /\ k # "sign"}

\* k put at its place in the ascending sequence keys
RECURSIVE InsertKey(_, _)
InsertKey(k, keys) ==
  IF Len(keys) = 0 THEN <<k>>
  ELSE IF StrLess(k, keys[1]) THEN <<k>> \o keys
  ELSE <<keys[1]>> \o InsertKey(k, Tail(keys))

\* step 2: Object.keys(filteredParams).sort()
RECURSIVE SortKeys(_)
SortKeys(S) ==
  IF S = {} THEN << >>
  ELSE LET k == CHOOSE x \in S : TRUE
       IN InsertKey(k, SortKeys(S \ {k}))

\* Object.entries(params).filter(...): the retained keys in the order in
\* which the object enumerates its entries
RetainedIn(params, order) ==
  SelectSeq(order, LAMBDA k : k \in FilteredKeys(params))

\* a sort that leaves the keys as they were enumerated
SortedKeys_AsGiven(keys) == keys

\* Object.keys(filteredParams).sort() on keys enumerated in the given order
RECURSIVE SortedKeys(_)
SortedKeys(keys) ==
  IF Len(keys) = 0 THEN << >>
  ELSE InsertKey(Head(keys), SortedKeys(Tail(keys)))

\* a join that writes the names without their values
RECURSIVE JoinPairs_NamesOnly(_, _)
JoinPairs_NamesOnly(params, keys) ==
  IF Len(keys) = 0 THEN ""
  ELSE IF Len(keys) = 1 THEN keys[1] \o "="
  ELSE keys[1] \o "=" \o "&" \o JoinPairs_NamesOnly(params, Tail(keys))

\* step 3: sortedKeys.map(key => `${key}=${value}`).join('&')
RECURSIVE JoinPairs(_, _)
JoinPairs(params, keys) ==
  IF Len(keys) = 0 THEN ""
  ELSE LET pair == keys[1] \o "=" \o params[keys[1]]
       IN IF Len(keys) = 1 THEN pair
          ELSE pair \o "&" \o JoinPairs(params, Tail(keys))

\* step 4: `${queryString}&Key=${signKey}`
SignString(params, signKey) ==
  JoinPairs(params, SortKeys(FilteredKeys(params))) \o "&Key=" \o signKey

\* step 5: createHash('md5').update(s).digest('hex'); the digest is an
\* injective tag of the hashed string, already in lowercase hex digits.
Md5Hex(s) == "md5:" \o s

generateSign(params, signKey) == Md5Hex(SignString(params, signKey))

\* generateSign on an object whose entries are enumerated in `order`
SignStringIn(params, order, signKey) ==
  JoinPairs(params, SortedKeys(RetainedIn(params, order))) \o "&Key=" \o signKey

generateSignIn(params, order, signKey) == Md5Hex(SignStringIn(params, order, signKey))

\* `{ ...dto }; delete params.sign`
WithoutSign(dto) == [k \in (DOMAIN dto) \ {"sign"} |-> dto[k]]

\* a comparison that ignores the case of the two signatures
verifyCallbackSignature_IgnoreCase(dto, signKey) ==
  LET expectedSign == generateSign(WithoutSign(dto), signKey)
      claimed == IF "sign" \in DOMAIN dto THEN dto["sign"] ELSE None
  IN claimed # None /\ ToUpper(expectedSign) = ToUpper(claimed)

\* verifyCallbackSignature that accepts every signature
verifyCallbackSignature_Skipped(dto, signKey) == TRUE

verifyCallbackSignature(dto, signKey) ==
  LET expectedSign == generateSign(WithoutSign(dto), signKey)
      claimed == IF "sign" \in DOMAIN dto THEN dto["sign"] ELSE None
  IN expectedSign = claimed

\* ------------------------------------- the Signer copy of PaymentService
\* a filter that lets the sign entry through
PaymentFilteredParams_KeepsSign(params) ==
  [k \in {x \in DOMAIN params : params[x] # "" /\ params[x] # None} |-> params[k]]

\* PaymentService.generateSign, step 1: filteredParams, the entries that
\* pass the filter with String(value) as value (the values are strings)
PaymentFilteredParams(params) ==
  [k \in {x \in DOMAIN params : params[x] # "" /\ params[x] # None /\ x # "sign"}
     |-> params[k]]

\* steps 2 to 4: sorted keys of filteredParams, `key=value` joined by '&',
\* then `&Key=${signKey}`
PaymentSignString(params, signKey) ==
  LET filteredParams == PaymentFilteredParams(params)
      sortedKeys     == SortKeys(DOMAIN filteredParams)
      queryString    == JoinPairs(filteredParams, sortedKeys)
  IN queryString \o "&Key=" \o signKey

\* PaymentService.generateSign
PaymentGenerateSign(params, signKey) == Md5Hex(PaymentSignString(params, signKey))

\* PaymentService.verifyCallbackSignature
PaymentVerifyCallbackSignature(dto, signKey) ==
  LET params       == [k \in (DOMAIN dto) \ {"sign"} |-> dto[k]]
      expectedSign == PaymentGenerateSign(params, signKey)
  IN IF "sign" \in DOMAIN dto THEN expectedSign = dto["sign"] ELSE expectedSign = None

\* ------------------------------------------------------------------ state
VARIABLES
  now,        \* the wall clock read by Date.now() and new Date()
  deposits,   \* the Deposit collection: sequence of rows, _id = index
  withdraws,  \* the Withdraw collection: sequence of rows, _id = index
  req,        \* creation requests: position and locals of each call
  cb,         \* callback deliveries: position and locals of each call
  inputs,     \* what callers and the provider may send: sites, keys, amounts
  sig         \* a call of the Signer or the Verifier on its own

vars == <<now, deposits, withdraws, req, cb, inputs, sig>>

NoTime == -1
NoNum  == -1

ReqIds == DOMAIN req
CbIds  == DOMAIN cb

IdleReq ==
  [pc |-> "idle", kind |-> None, site |-> None, signKey |-> None, amount |-> NoNum,
   id |-> 0, orderNo |-> None, result |-> None,
   payload |-> << >>, calls |-> 0, respCode |-> None]

IdleCb ==
  [pc |-> "idle", svc |-> None, dto |-> << >>, signKey |-> None, txId |-> 0,
   update |-> << >>, resp |-> None, log |-> None]

IdleSig ==
  [pc |-> "idle", params |-> << >>, order |-> << >>, signKey |-> None,
   hasDto |-> TRUE, out |-> None,
   tamper |-> None]

\* one site, the originators' keys only, callbacks reporting the amount asked
NarrowInputs == [sites |-> Sites, cbKeys |-> SignKeys, orderAmounts |-> OrderAmounts]

Init ==
  /\ now = 0
  /\ deposits = << >>
  /\ withdraws = << >>
  /\ req = [r \in 1..NumReq |-> IdleReq]
  /\ cb = [h \in 1..NumCb |-> IdleCb]
  /\ inputs = NarrowInputs
  /\ sig = IdleSig

\* ------------------------------------------------------ Transaction Store
\* DepositRepository.create: a new row, PENDING, no order number yet
DepositCreate(rows, draft) ==
  Append(rows,
    [site |-> draft.site, amount |-> draft.amount, status |-> PENDING,
     systemOrderNo |-> None, systemRef |-> None, successedAt |-> NoTime,
     creditAmount |-> NoNum, fee |-> NoNum, paymentStatus |-> None,
     errorCode |-> None])

\* DepositRepository.paymentCreated: provider reference and preview fields;
\* the status is left as it is
PaymentCreated(rows, id, upd) ==
  [rows EXCEPT ![id].systemRef = upd.systemRef,
               ![id].systemOrderNo = upd.systemOrderNo,
               ![id].fee = upd.fee]

\* DepositRepository.paymentCreateFailed
PaymentCreateFailed(rows, id, err) ==
  [rows EXCEPT ![id].status = FAILED, ![id].errorCode = err.errorCode]

\* findOne whose filter matches any row when no order number matches
FindBySystemOrderNo_AnyRow(rows, orderNo) ==
  IF \E i \in 1..Len(rows) : rows[i].systemOrderNo = orderNo
  THEN CHOOSE i \in 1..Len(rows) :
         /\ rows[i].systemOrderNo = orderNo
         /\ \A j \in 1..(i - 1) : rows[j].systemOrderNo # orderNo
  ELSE IF Len(rows) > 0 THEN 1 ELSE 0

\* findOne by systemOrderNo: the first matching row, 0 when there is none
FindBySystemOrderNo(rows, orderNo) ==
  IF \E i \in 1..Len(rows) : rows[i].systemOrderNo = orderNo
  THEN CHOOSE i \in 1..Len(rows) :
         /\ rows[i].systemOrderNo = orderNo
         /\ \A j \in 1..(i - 1) : rows[j].systemOrderNo # orderNo
  ELSE 0

\* an update that removes a row it would mark FAILED
UpdatePayment_Purges(rows, id, upd) ==
  IF upd.status = FAILED
  THEN SubSeq(rows, 1, id - 1) \o SubSeq(rows, id + 1, Len(rows))
  ELSE [rows EXCEPT ![id].status = upd.status,
                    ![id].creditAmount = upd.creditAmount,
                    ![id].fee = upd.fee,
                    ![id].paymentStatus = upd.paymentStatus,
                    ![id].successedAt = upd.successedAt]

\* DepositRepository.updatePayment: sets the given fields of row id; an
\* undefined field is not written
UpdatePayment(rows, id, upd) ==
  [rows EXCEPT ![id].status = upd.status,
               ![id].creditAmount = upd.creditAmount,
               ![id].fee = upd.fee,
               ![id].paymentStatus = upd.paymentStatus,
               ![id].successedAt = IF upd.successedAt = NoTime THEN @ ELSE upd.successedAt]

\* withdrawModel.create
WithdrawCreate(rows, doc) ==
  Append(rows,
    [site |-> doc.site, amount |-> doc.amount, status |-> doc.status,
     systemOrderNo |-> doc.systemOrderNo, systemRef |-> None,
     withdrawAmount |-> NoNum, fee |-> NoNum, paymentStatus |-> None])

\* withdrawModel.updateOne({_id}, {systemRef, status}) of createWithdraw
WithdrawMarkProcessing(rows, id, systemRef) ==
  [rows EXCEPT ![id].systemRef = systemRef, ![id].status = PROCESSING]

\* an update that also overwrites the requested amount
WithdrawUpdateOne_SetsAmount(rows, id, upd) ==
  [rows EXCEPT ![id].status = upd.status,
               ![id].amount = upd.withdrawAmount,
               ![id].withdrawAmount = upd.withdrawAmount,
               ![id].fee = upd.fee,
               ![id].paymentStatus = upd.paymentStatus]

\* an update applied to every row of the collection
WithdrawUpdateOne_Many(rows, id, upd) ==
  [i \in 1..Len(rows) |->
     [rows[i] EXCEPT !.status = upd.status,
                     !.withdrawAmount = upd.withdrawAmount,
                     !.fee = upd.fee,
                     !.paymentStatus = upd.paymentStatus]]

\* withdrawModel.updateOne({_id}, updateData) of handleCallback; completedAt
\* is not a path of the Withdraw schema and is not stored
WithdrawUpdateOne(rows, id, upd) ==
  [rows EXCEPT ![id].status = upd.status,
               ![id].withdrawAmount = upd.withdrawAmount,
               ![id].fee = upd.fee,
               ![id].paymentStatus = upd.paymentStatus]

\* ------------------------------------------------------------------ clock
Tick ==
  /\ now < MaxClock
  /\ now' = now + 1
  /\ UNCHANGED <<deposits, withdraws, req, cb, inputs, sig>>

\* ---------------------------------------------------- Request Orchestrator
\* requests are numbered in order of arrival
MayStartReq(r) == req[r].pc = "idle" /\ (IF r = 1 THEN TRUE ELSE req[r - 1].pc # "idle")

ProviderRef(orderNo) == "PO:" \o orderNo

\* what the provider may answer to a creation request, and the failure of
\* the HTTP call
RespCodes == {"000", "001"}
NetworkError == "neterr"

\* the payload of requestPayment before it is signed
DepositPayload(orderNo, amount) ==
  [accessType |-> "1", merchantId |-> "M1", notifyUrl |-> "https://host/callback",
   pageUrl |-> "https://bo/result", language |-> "zh-CN", orderNo |-> orderNo,
   orderAmount |-> ToString(amount), currency |-> "THB", payType |-> "PP",
   orderName |-> "Deposit for u1"]

\* `if (dto.params.signKey) payload.sign = generateSign(payload, signKey)`
SignedDepositPayload(payload, signKey) ==
  IF signKey # "" /\ signKey # None
  THEN payload @@ ("sign" :> generateSign(payload, signKey))
  ELSE payload

\* the payload of createWithdraw before it is signed
WithdrawPayload(orderNo, amount) ==
  [accessType |-> "1", merchantId |-> "M1", notifyUrl |-> "https://host/callback",
   pageUrl |-> "https://bo/cb", language |-> "zh-CN", orderNo |-> orderNo,
   orderAmount |-> ToString(amount), currency |-> "THB", payType |-> "TRANSFER",
   bankName |-> "B1", bankAccount |-> "0001", bankAccountName |-> "u1",
   orderName |-> "Withdraw for u1"]

\* `payload.sign = this.copoService.generateSign(payload, dto.signKey)`
SignedWithdrawPayload(payload, signKey) ==
  payload @@ ("sign" :> generateSign(payload, signKey))

\* requestPayment up to the first await: depositRepository.create
RequestPaymentCreate(r) ==
  /\ MayStartReq(r)
  /\ \E site \in inputs.sites, amount \in Amounts, key \in DepositSignKeys :
       /\ deposits' = DepositCreate(deposits, [site |-> site, amount |-> amount])
       /\ req' = [req EXCEPT ![r] = [IdleReq EXCEPT !.pc = "created", !.kind = "deposit",
                                       !.site = site, !.signKey = key, !.amount = amount,
                                       !.id = Len(deposits) + 1]]
  /\ UNCHANGED <<now, withdraws, cb, inputs, sig>>

\* requestPayment: order number from Date.now(), payload signed and posted
RequestPaymentPost(r) ==
  /\ req[r].pc = "created" /\ req[r].kind = "deposit"
  /\ LET orderNo == "COP" \o req[r].site \o ToString(now)
     IN req' = [req EXCEPT ![r].pc = "posted",
                           ![r].orderNo = orderNo,
                           ![r].payload = SignedDepositPayload(
                                            DepositPayload(orderNo, req[r].amount),
                                            req[r].signKey),
                           ![r].calls = @ + 1]
  /\ UNCHANGED <<now, deposits, withdraws, cb, inputs, sig>>

\* a catch block that wraps every exception as an upstream error
RequestError_Wrapped(outcome) ==
  IF outcome = "000" THEN None ELSE "UpstreamError"

\* the exception a creation request ends with, None when it returns: a
\* response code other than '000' throws ProviderRejectedException, which
\* the catch block rethrows; any other exception is wrapped
RequestError(outcome) ==
  IF outcome = NetworkError THEN "UpstreamError"
  ELSE IF outcome # "000" THEN "ProviderRejected"
  ELSE None

\* a call that is posted again after a network failure
Thrown_Retry(q, outcome) ==
  IF outcome = NetworkError /\ q.calls < 2
  THEN [q EXCEPT !.calls = @ + 1]
  ELSE [q EXCEPT !.pc = "done", !.respCode = outcome, !.result = RequestError(outcome)]

\* the call ends by throwing to its caller
Thrown(q, outcome) ==
  [q EXCEPT !.pc = "done", !.respCode = outcome, !.result = RequestError(outcome)]

\* the call ends by returning the identifiers
Returned(q, outcome) ==
  [q EXCEPT !.pc = "done", !.respCode = outcome, !.result = "ok"]

\* an acceptance that does not record the provider's reference
AcceptedUpdate_NoRef(q) ==
  [systemRef |-> None, systemOrderNo |-> q.orderNo, fee |-> 0]

\* the fields requestPayment hands to paymentCreated
AcceptedUpdate(q) ==
  [systemRef |-> ProviderRef(q.orderNo), systemOrderNo |-> q.orderNo, fee |-> 0]

\* a catch block that marks the row FAILED before rethrowing
AfterCallFailed_MarksFailed(rows, id) == [rows EXCEPT ![id].status = FAILED]

\* the catch block of requestPayment and of createWithdraw after a failed or
\* timed-out call: the error is logged and thrown on, the collection is not
\* written
AfterCallFailed(rows, id) == rows

\* requestPayment: the provider's answer (or the failure of the call)
RequestPaymentRespond(r) ==
  /\ req[r].pc = "posted" /\ req[r].kind = "deposit"
  /\ \E outcome \in RespCodes \cup {NetworkError} :
       CASE outcome = NetworkError ->
              /\ deposits' = AfterCallFailed(deposits, req[r].id)
              /\ req' = [req EXCEPT ![r] = Thrown(req[r], outcome)]
         [] outcome # NetworkError /\ outcome # "000" ->
              /\ deposits' = PaymentCreateFailed(deposits, req[r].id, [errorCode |-> outcome])
              /\ req' = [req EXCEPT ![r] = Thrown(req[r], outcome)]
         [] outcome = "000" ->
              /\ deposits' = PaymentCreated(deposits, req[r].id, AcceptedUpdate(req[r]))
              /\ req' = [req EXCEPT ![r] = Returned(req[r], outcome)]
  /\ UNCHANGED <<now, withdraws, cb, inputs, sig>>

\* createWithdraw: order number, withdrawModel.create, payload signed and
\* createPayout called
CreateWithdrawCreate(r) ==
  /\ MayStartReq(r)
  /\ \E site \in inputs.sites, amount \in Amounts, key \in SignKeys :
       LET orderNo == "COP_WITHDRAW_" \o site \o "_" \o ToString(now)
       IN /\ withdraws' = WithdrawCreate(withdraws,
                            [site |-> site, amount |-> amount,
                             systemOrderNo |-> orderNo, status |-> PENDING])
          /\ req' = [req EXCEPT ![r] = [IdleReq EXCEPT !.pc = "posted", !.kind = "withdraw",
                                          !.site = site, !.signKey = key, !.amount = amount,
                                          !.id = Len(withdraws) + 1, !.orderNo = orderNo,
                                          !.payload = SignedWithdrawPayload(
                                                        WithdrawPayload(orderNo, amount), key),
                                          !.calls = 1]]
  /\ UNCHANGED <<now, deposits, cb, inputs, sig>>

\* createWithdraw: createPayout returns or throws
CreateWithdrawRespond(r) ==
  /\ req[r].pc = "posted" /\ req[r].kind = "withdraw"
  /\ \E outcome \in RespCodes \cup {NetworkError} :
       IF outcome = "000"
       THEN /\ withdraws' = WithdrawMarkProcessing(withdraws, req[r].id,
                                                    ProviderRef(req[r].orderNo))
            /\ req' = [req EXCEPT ![r] = Returned(req[r], outcome)]
       ELSE /\ withdraws' = AfterCallFailed(withdraws, req[r].id)
            /\ req' = [req EXCEPT ![r] = Thrown(req[r], outcome)]
  /\ UNCHANGED <<now, deposits, cb, inputs, sig>>

\* ---------------------------------------------------- Callback Reconciler
\* what the caller of the callback endpoint receives
Acknowledgement       == "success"
UnauthorizedException == "401 Invalid signature"
NotFoundException     == "404 Not Found"

\* deliveries are numbered in order of arrival
MayStartCb(h) == cb[h].pc = "idle" /\ (IF h = 1 THEN TRUE ELSE cb[h - 1].pc # "idle")

\* order numbers a delivery may carry: those handed to the provider, and
\* one that was never generated
OrderNoChoices ==
  {req[r].orderNo : r \in {q \in ReqIds : req[q].orderNo # None}} \cup {UnknownOrderNo}

CallbackBody(orderNo, orderStatus, orderAmount) ==
  [accessType |-> "1", fee |-> "2.00", merchantId |-> "M1", orderAmount |-> orderAmount,
   orderNo |-> orderNo, orderStatus |-> orderStatus, payOrderId |-> "P1"]

WithSign(body, sign) == body @@ ("sign" :> sign)

\* `dto.sign = sign` on a payload that may already have the field
WithSignField(dto, sign) ==
  [k \in DOMAIN dto \cup {"sign"} |-> IF k = "sign" THEN sign ELSE dto[k]]

\* what a delivery carries: order number, status code, amount, the key its
\* signature was made with (BadSign: a signature that is no digest) and the
\* key the request names in its query or x-sign-key header.  All status
\* codes are tried with the first amount and a key of SignKeys; the other
\* amounts and keys are tried with one status code, neither the signature
\* check nor the amount handling looking at the code.
Deliveries ==
  {d \in [orderNo : OrderNoChoices, orderStatus : OrderStatuses,
          orderAmount : inputs.orderAmounts, signer : inputs.cbKeys \cup {BadSign},
          signKey : inputs.cbKeys] :
     /\ d.signKey = OtherKey => d.signer = OtherKey
     /\ (d.signer \notin SignKeys \/ d.orderAmount # "100.00") => d.orderStatus = CB_SUCCESS
     /\ d.orderAmount # "100.00" => d.signer \in SignKeys}

DeliveryDto(d) ==
  LET body == CallbackBody(d.orderNo, d.orderStatus, d.orderAmount)
  IN WithSign(body, IF d.signer = BadSign THEN BadSign ELSE generateSign(body, d.signer))

\* the dispatch of AppController.callbackPost / callbackGet
IsWithdrawCallback(dto) == "orderNo" \in DOMAIN dto /\ Includes(dto.orderNo, "WITHDRAW")

\* a signature check that logs the failure and goes on to the lookup
Received_NoThrow(dto, signKey) ==
  [IdleCb EXCEPT !.pc = "finding", !.dto = dto, !.signKey = signKey,
                 !.svc = IF IsWithdrawCallback(dto) THEN "withdraw" ELSE "deposit"]

\* callback / handleCallback up to the first await: the signature check
Received(dto, signKey) ==
  LET svc == IF IsWithdrawCallback(dto) THEN "withdraw" ELSE "deposit"
  IN IF ~verifyCallbackSignature(dto, signKey)
     THEN [IdleCb EXCEPT !.pc = "done", !.svc = svc, !.dto = dto, !.signKey = signKey,
                         !.resp = UnauthorizedException]
     ELSE [IdleCb EXCEPT !.pc = "finding", !.svc = svc, !.dto = dto, !.signKey = signKey]

\* a guard that lets every status through
DepositMayUpdate_Always(status) == TRUE

\* the guard of PaymentService.callback
DepositMayUpdate(status) == status = PENDING

\* PaymentService.callback from the lookup's result to the next await or
\* the return: c is the handler, rows the collection read, t the clock
DepositAfterFind(c, rows, t) ==
  LET dto == c.dto
      id  == FindBySystemOrderNo(rows, dto.orderNo)
  IN IF id = 0 THEN [c EXCEPT !.pc = "done", !.resp = NotFoundException]
     ELSE IF DepositMayUpdate(rows[id].status)
     THEN LET isSuccess == isSuccessStatus(dto.orderStatus)
          IN [c EXCEPT !.pc = "updating", !.txId = id,
                !.update = [successedAt |-> IF isSuccess THEN t ELSE NoTime,
                            status |-> IF isSuccess THEN SUCCESS ELSE FAILED,
                            creditAmount |-> OrZero(ParseFloat(dto.orderAmount)),
                            fee |-> OrZero(ParseFloat(dto.fee)),
                            paymentStatus |-> dto.orderStatus]]
     ELSE [c EXCEPT !.pc = "done", !.txId = id, !.log = "non-pending",
                    !.resp = Acknowledgement]

\* the guard of WithdrawService.handleCallback
WithdrawMayUpdate(status) == status = PENDING \/ status = PROCESSING

\* WithdrawService.handleCallback from the lookup's result to the next
\* await or the return
WithdrawAfterFind(c, rows, t) ==
  LET dto == c.dto
      id  == FindBySystemOrderNo(rows, dto.orderNo)
  IN IF id = 0 THEN [c EXCEPT !.pc = "done", !.resp = NotFoundException]
     ELSE IF WithdrawMayUpdate(rows[id].status)
     THEN LET isSuccess == isSuccessStatus(dto.orderStatus)
          IN [c EXCEPT !.pc = "updating", !.txId = id,
                !.update = [status |-> IF isSuccess THEN SUCCESS ELSE FAILED,
                            withdrawAmount |-> OrZero(ParseFloat(dto.orderAmount)),
                            fee |-> OrZero(ParseFloat(dto.fee)),
                            paymentStatus |-> dto.orderStatus,
                            completedAt |-> IF isSuccess THEN t ELSE NoTime]]
     ELSE [c EXCEPT !.pc = "done", !.txId = id, !.log = "non-pending",
                    !.resp = Acknowledgement]

\* a handler that answers with a JSON envelope after an update
AfterUpdate_Envelope(c) ==
  [c EXCEPT !.pc = "done", !.update = << >>, !.log = "updated", !.resp = "{status:true}"]

\* the handler once its update has been applied: log line and return
AfterUpdate(c) ==
  [c EXCEPT !.pc = "done", !.update = << >>, !.log = "updated", !.resp = Acknowledgement]

\* AppController.callbackPost: the unified endpoint picks the reconciler by
\* the order number; the reconciler verifies the signature before any await
CallbackPost(h) ==
  /\ MayStartCb(h)
  /\ \E d \in Deliveries :
       cb' = [cb EXCEPT ![h] = Received(DeliveryDto(d), d.signKey)]
  /\ UNCHANGED <<now, deposits, withdraws, req, inputs, sig>>

\* where a callback request carries the secret key: the signKey query
\* parameter or the x-sign-key header
KeyCarriers == {"query", "header"}

\* the object @Query() hands to callbackGet: every query parameter of the
\* request, the callback's fields and, when the key travels in the query,
\* signKey as well (the ValidationPipe strips nothing)
QueryDto(d, carrier) ==
  IF carrier = "query" THEN DeliveryDto(d) @@ ("signKey" :> d.signKey) ELSE DeliveryDto(d)

\* AppController.callbackGet: the same dispatch and handlers as callbackPost
\* on the query parameters instead of the body
CallbackGet(h) ==
  /\ MayStartCb(h)
  /\ \E d \in Deliveries : \E carrier \in KeyCarriers :
       cb' = [cb EXCEPT ![h] = Received(QueryDto(d, carrier), d.signKey)]
  /\ UNCHANGED <<now, deposits, withdraws, req, inputs, sig>>

\* PaymentService.callback: findOneBySystemOrderNo returns
DepositCallbackFind(h) ==
  /\ cb[h].pc = "finding" /\ cb[h].svc = "deposit"
  /\ cb' = [cb EXCEPT ![h] = DepositAfterFind(cb[h], deposits, now)]
  /\ UNCHANGED <<now, deposits, withdraws, req, inputs, sig>>

\* PaymentService.callback: depositRepository.updatePayment is applied
DepositCallbackUpdate(h) ==
  /\ cb[h].pc = "updating" /\ cb[h].svc = "deposit"
  /\ deposits' = UpdatePayment(deposits, cb[h].txId, cb[h].update)
  /\ cb' = [cb EXCEPT ![h] = AfterUpdate(cb[h])]
  /\ UNCHANGED <<now, withdraws, req, inputs, sig>>

\* WithdrawService.handleCallback: findOne returns
WithdrawCallbackFind(h) ==
  /\ cb[h].pc = "finding" /\ cb[h].svc = "withdraw"
  /\ cb' = [cb EXCEPT ![h] = WithdrawAfterFind(cb[h], withdraws, now)]
  /\ UNCHANGED <<now, deposits, withdraws, req, inputs, sig>>

\* WithdrawService.handleCallback: withdrawModel.updateOne is applied
WithdrawCallbackUpdate(h) ==
  /\ cb[h].pc = "updating" /\ cb[h].svc = "withdraw"
  /\ withdraws' = WithdrawUpdateOne(withdraws, cb[h].txId, cb[h].update)
  /\ cb' = [cb EXCEPT ![h] = AfterUpdate(cb[h])]
  /\ UNCHANGED <<now, deposits, req, inputs, sig>>

Next ==
  \/ Tick
  \/ \E r \in ReqIds : RequestPaymentCreate(r)
  \/ \E r \in ReqIds : RequestPaymentPost(r)
  \/ \E r \in ReqIds : RequestPaymentRespond(r)
  \/ \E r \in ReqIds : CreateWithdrawCreate(r)
  \/ \E r \in ReqIds : CreateWithdrawRespond(r)
  \/ \E h \in CbIds : CallbackPost(h)
  \/ \E h \in CbIds : CallbackGet(h)
  \/ \E h \in CbIds : DepositCallbackFind(h)
  \/ \E h \in CbIds : DepositCallbackUpdate(h)
  \/ \E h \in CbIds : WithdrawCallbackFind(h)
  \/ \E h \in CbIds : WithdrawCallbackUpdate(h)

Spec == Init /\ [][Next]_vars

\* the same service serving two creation requests, which may overlap
InitPair ==
  /\ now = 0
  /\ deposits = << >>
  /\ withdraws = << >>
  /\ req = [r \in 1..PairReq |-> IdleReq]
  /\ cb = [h \in 1..PairCb |-> IdleCb]
  /\ inputs = NarrowInputs
  /\ sig = IdleSig

SpecPair == InitPair /\ [][Next]_vars

\* --------------------------------------------- Signer and Verifier alone
\* names and values of the entries handed to the Signer
SigNames  == {"B", "a", "ab", "sign"}
SigValues == {"", None, "1"}

\* the parameter mappings with at most MaxEntries entries
SigParams ==
  UNION {[D -> SigValues] : D \in {E \in SUBSET SigNames : Cardinality(E) <= MaxEntries}}

\* the orders in which an object with the keys S can enumerate them
Perms(S) ==
  {f \in [1..Cardinality(S) -> S] : \A i, j \in 1..Cardinality(S) : f[i] = f[j] => i = j}

\* what a call of the Verifier ends with
TypeErrorThrown == "TypeError"
BoolText(b) == IF b THEN "true" ELSE "false"

\* verifyCallbackSignature called with dto, or with undefined when hasDto
\* is false: `dto.sign` then throws
VerifierOutcome(hasDto, dto, signKey) ==
  IF ~hasDto THEN TypeErrorThrown
  ELSE BoolText(verifyCallbackSignature(dto, signKey))

\* PaymentService.verifyCallbackSignature called with dto, or with undefined
PaymentVerifierOutcome(hasDto, dto, signKey) ==
  IF ~hasDto THEN TypeErrorThrown
  ELSE BoolText(PaymentVerifyCallbackSignature(dto, signKey))

InitSign ==
  /\ now = 0
  /\ deposits = << >>
  /\ withdraws = << >>
  /\ req = << >>
  /\ cb = << >>
  /\ inputs = NarrowInputs
  /\ sig \in {[IdleSig EXCEPT !.pc = "input", !.params = p, !.signKey = k] :
                p \in SigParams, k \in SignKeys \cup {None}}

\* generateSign(params, signKey) on an object enumerating its entries in
\* some order
SignerSign ==
  /\ sig.pc = "input"
  /\ \E order \in Perms(DOMAIN sig.params) :
       sig' = [sig EXCEPT !.pc = "signed", !.order = order,
                          !.out = generateSignIn(sig.params, order, sig.signKey)]
  /\ UNCHANGED <<now, deposits, withdraws, req, cb, inputs>>

\* verifyCallbackSignature(dto, signKey): the payload as it is, or with the
\* right signature, or with that signature in upper case, or no payload
SignerVerify ==
  /\ sig.pc = "input"
  /\ \E hasDto \in BOOLEAN, supplied \in {"asis", "right", "upper"} :
       LET right == generateSign(WithoutSign(sig.params), sig.signKey)
           dto == CASE supplied = "asis" -> sig.params
                    [] supplied = "right" -> WithSignField(sig.params, right)
                    [] supplied = "upper" -> WithSignField(sig.params, ToUpper(right))
       IN /\ hasDto \/ supplied = "asis"
          /\ sig' = [sig EXCEPT !.pc = "verified", !.params = dto, !.hasDto = hasDto,
                                !.out = VerifierOutcome(hasDto, dto, sig.signKey)]
  /\ UNCHANGED <<now, deposits, withdraws, req, cb, inputs>>

\* what may happen to a signed payload before it is verified: nothing, a
\* different key at the Verifier, another value or another name for one
\* retained field, or another parameter mapping under the same signature
Tampers == {"none", "key", "value", "name", "mapping"}

\* keys, values and names used in place of the signed ones; values may hold
\* the separators of the sign string
RoundTripKeys == SignKeys \cup {OtherKey, ""}
TamperValues  == SigValues \cup {"2", "1&ab=1"}
TamperNames   == (SigNames \ {"sign"}) \cup {"c"}

\* parameter mappings whose values may hold '&' and '='
DelimParams == UNION {[D -> {"1", "1&ab=1"}] : D \in SUBSET {"a", "ab"}}

\* the payload with field f renamed to n
Renamed(dto, f, n) ==
  [k \in (DOMAIN dto \ {f}) \cup {n} |-> IF k = n THEN dto[f] ELSE dto[k]]

\* the payloads and keys the Verifier may see after signing params with
\* signKey and tampering in the given way
Tampered(params, signKey, tamper) ==
  LET sign == generateSign(params, signKey)
      dto  == WithSignField(params, sign)
      kept == FilteredKeys(params)
  IN CASE tamper = "none" -> {[dto |-> dto, signKey |-> signKey]}
       [] tamper = "key" ->
            {[dto |-> dto, signKey |-> k] : k \in RoundTripKeys \ {signKey}}
       [] tamper = "value" ->
            {[dto |-> [dto EXCEPT ![x[1]] = x[2]], signKey |-> signKey] :
               x \in {y \in kept \X TamperValues : y[2] # params[y[1]]}}
       [] tamper = "name" ->
            {[dto |-> Renamed(dto, x[1], x[2]), signKey |-> signKey] :
               x \in kept \X (TamperNames \ DOMAIN params)}
       [] tamper = "mapping" ->
            {[dto |-> WithSignField(q, sign), signKey |-> signKey] :
               q \in {m \in DelimParams :
                        [k \in FilteredKeys(m) |-> m[k]] # [k \in kept |-> params[k]]}}

\* generateSign, `payload.sign = ...`, then verifyCallbackSignature on what
\* arrives
SignerRoundTrip ==
  /\ sig.pc = "input"
  /\ \E tamper \in Tampers : \E t \in Tampered(sig.params, sig.signKey, tamper) :
       sig' = [sig EXCEPT !.pc = "roundtrip", !.params = t.dto, !.signKey = t.signKey,
                          !.tamper = tamper,
                          !.out = VerifierOutcome(TRUE, t.dto, t.signKey)]
  /\ UNCHANGED <<now, deposits, withdraws, req, cb, inputs>>

NextSign == SignerSign \/ SignerVerify \/ SignerRoundTrip

SpecSign == InitSign /\ [][NextSign]_vars

\* more sites, a key that is nobody's, callbacks reporting another amount
WideInputs ==
  [sites |-> WideSites, cbKeys |-> SignKeys \cup {OtherKey},
   orderAmounts |-> WideOrderAmounts]

\* the same service with the wider inputs
InitWide ==
  /\ now = 0
  /\ deposits = << >>
  /\ withdraws = << >>
  /\ req = [r \in 1..WideReq |-> IdleReq]
  /\ cb = [h \in 1..WideCb |-> IdleCb]
  /\ inputs = WideInputs
  /\ sig = IdleSig

SpecWide == InitWide /\ [][Next]_vars

TypeOK ==
  /\ now \in 0..MaxClock
  /\ \A i \in 1..Len(deposits) : deposits[i].status \in {PENDING, SUCCESS, FAILED}
  /\ \A i \in 1..Len(withdraws) : withdraws[i].status \in {PENDING, PROCESSING, SUCCESS, FAILED}

\* ------------------------------------------------------------- properties
\* the row a handler has looked up
RowOf(c) == IF c.svc = "deposit" THEN deposits[c.txId] ELSE withdraws[c.txId]

\* the same row after the step
RowAfter(c) == IF c.svc = "deposit" THEN deposits'[c.txId] ELSE withdraws'[c.txId]

\* handler h applies its update in this step
AppliesUpdate(h) == cb[h].pc = "updating" /\ cb'[h].pc = "done"

\* status codes that report a final outcome
TerminalCodes == {CB_SUCCESS, CB_FAILED, CB_MANUAL_SUCCESS}

\* C1: once the status of a transaction, deposit or withdraw, is SUCCESS or
\* FAILED, no step of a callback handler changes that status, whatever the
\* callback's orderStatus and however the handlers interleave.
C1_CallbackNeverLeavesTerminal ==
  [][(\E h \in CbIds : AppliesUpdate(h)) =>
       /\ \A i \in 1..Len(deposits) :
            deposits[i].status \in Terminal => deposits'[i].status = deposits[i].status
       /\ \A i \in 1..Len(withdraws) :
            withdraws[i].status \in Terminal => withdraws'[i].status = withdraws[i].status]_vars

\* C2: of two callbacks with the same order number and the same terminal
\* status code, only one writes to the row: a handler never applies its
\* update to a row that a callback with the same code has already settled.
C2_DuplicateObservesSettledRow ==
  [][\A h \in CbIds :
       AppliesUpdate(h) /\ cb[h].dto.orderStatus \in TerminalCodes =>
         ~(RowOf(cb[h]).status \in Terminal
           /\ RowOf(cb[h]).paymentStatus = cb[h].dto.orderStatus)]_vars

\* C3: no step moves a withdraw that is SUCCESS or FAILED back to
\* PROCESSING; in particular the update of createWithdraw after the
\* provider accepted the payout does not.
C3_WithdrawNeverBackToProcessing ==
  [][\A i \in 1..Len(withdraws) :
       withdraws[i].status \in Terminal => withdraws'[i].status # PROCESSING]_vars

\* the supplied signature is the digest of the payload without its sign
\* field under the key the caller passed
SignatureMatches(c) == c.dto.sign = generateSign(WithoutSign(c.dto), c.signKey)

\* some stored transaction carries the order number
OrderStored(orderNo) ==
  \/ \E i \in 1..Len(deposits) : deposits[i].systemOrderNo = orderNo
  \/ \E i \in 1..Len(withdraws) : withdraws[i].systemOrderNo = orderNo

\* a received delivery c handled to its answer with no other step in
\* between, on the collections dep and wd at time t
RunCallback(c, dep, wd, t) ==
  LET c2 == IF c.pc # "finding" THEN c
            ELSE IF c.svc = "deposit" THEN DepositAfterFind(c, dep, t)
            ELSE WithdrawAfterFind(c, wd, t)
      writes == c2.pc = "updating"
  IN [deposits  |-> IF writes /\ c2.svc = "deposit"
                    THEN UpdatePayment(dep, c2.txId, c2.update) ELSE dep,
      withdraws |-> IF writes /\ c2.svc = "withdraw"
                    THEN WithdrawUpdateOne(wd, c2.txId, c2.update) ELSE wd,
      resp      |-> IF writes THEN AfterUpdate(c2).resp ELSE c2.resp]

\* C4: when the identical verified callback is delivered twice in
\* sequence, from any reachable store, the second delivery answers
\* 'success' and leaves every field of every row as the first left it.
C4_SecondDeliveryChangesNothing ==
  \A d \in {x \in Deliveries : x.signer # BadSign} :
    \A c \in {Received(DeliveryDto(d), d.signKey)} :
      \A first \in {RunCallback(c, deposits, withdraws, now)} :
        first.resp = "success" =>
          \A t2 \in now..MaxClock :
            \A second \in {RunCallback(c, first.deposits, first.withdraws, t2)} :
              /\ second.resp = "success"
              /\ second.deposits = first.deposits
              /\ second.withdraws = first.withdraws

\* a callback was applied and the same callback, delivered again later,
\* was acknowledged without a write
C4_Witness ==
  \E h1, h2 \in CbIds :
    /\ h1 # h2 /\ cb[h1].dto = cb[h2].dto
    /\ cb[h1].log = "updated" /\ cb[h1].resp = "success"
    /\ cb[h2].log = "non-pending" /\ cb[h2].resp = "success"
    /\ RowOf(cb[h1]).paymentStatus = cb[h1].dto.orderStatus
    /\ RowOf(cb[h1]).status \in Terminal

\* C5: a callback whose signature does not verify is answered with the
\* authorization error, by either reconciler, and the step that receives
\* it leaves both collections as they were; its handler does nothing more.
C5_InvalidSignatureRejectedNoChange ==
  [][\A h \in CbIds :
       cb'[h].pc # "idle" /\ ~SignatureMatches(cb'[h]) =>
         /\ cb'[h].pc = "done"
         /\ cb'[h].resp = UnauthorizedException
         /\ (cb[h].pc = "idle" => deposits' = deposits /\ withdraws' = withdraws)]_vars

\* forged callbacks were rejected by both reconcilers, the one sent to the
\* withdraw reconciler naming a stored order
C5_Witness ==
  \E h1, h2 \in CbIds :
    /\ cb[h1].pc = "done" /\ cb[h2].pc = "done"
    /\ cb[h1].dto.sign = BadSign /\ cb[h2].dto.sign = BadSign
    /\ cb[h1].svc = "deposit" /\ cb[h2].svc = "withdraw"
    /\ cb[h1].resp = UnauthorizedException /\ cb[h2].resp = UnauthorizedException
    /\ OrderStored(cb[h2].dto.orderNo)

\* C6: the answer to a callback with an invalid signature does not depend
\* on the store: in every reachable state, whether or not a row carries
\* its order number and whatever that row's status, the handler has
\* answered the same authorization error and holds no lookup result.
C6_InvalidSignatureAnswerIgnoresStore ==
  \A h \in CbIds :
    cb[h].pc # "idle" /\ ~SignatureMatches(cb[h]) =>
      /\ cb[h].pc = "done"
      /\ cb[h].resp = UnauthorizedException
      /\ cb[h].txId = 0 /\ cb[h].log = None /\ cb[h].update = << >>

\* two forged callbacks got the same answer, one for an order that is
\* stored and settled, the other for an order that is not stored
C6_Witness ==
  \E h1, h2 \in CbIds :
    /\ cb[h1].pc = "done" /\ cb[h2].pc = "done"
    /\ ~SignatureMatches(cb[h1]) /\ ~SignatureMatches(cb[h2])
    /\ cb[h1].resp = cb[h2].resp
    /\ ~OrderStored(cb[h1].dto.orderNo)
    /\ \E i \in 1..Len(deposits) :
         /\ deposits[i].systemOrderNo = cb[h2].dto.orderNo
         /\ deposits[i].status = PENDING

\* C7: a callback with a valid signature whose order number no stored
\* transaction carries is answered with the not-found error, which is not
\* the signature-failure error, and the lookup step changes no row.
C7_UnknownOrderNotFound ==
  [][\A h \in CbIds :
       cb[h].pc = "finding" /\ cb'[h].pc # "finding"
         /\ SignatureMatches(cb[h]) /\ ~OrderStored(cb[h].dto.orderNo)
       => /\ cb'[h].pc = "done"
          /\ cb'[h].resp = "404 Not Found"
          /\ cb'[h].resp # UnauthorizedException
          /\ deposits' = deposits /\ withdraws' = withdraws]_vars

\* a verified callback for an unknown order was answered not-found while
\* another transaction was stored
C7_Witness ==
  \E h \in CbIds :
    /\ cb[h].pc = "done" /\ SignatureMatches(cb[h])
    /\ ~OrderStored(cb[h].dto.orderNo)
    /\ cb[h].resp = NotFoundException
    /\ Len(deposits) + Len(withdraws) > 0

\* C8: a handled callback is answered with the literal 'success' exactly
\* when its signature verified and its order was found, whatever the status
\* code and whether or not the row was written; the only other answers are
\* the authorization error and the not-found error.
C8_AcknowledgedIffVerifiedAndFound ==
  \A h \in CbIds :
    cb[h].pc = "done" =>
      /\ (SignatureMatches(cb[h]) /\ cb[h].txId # 0) <=> cb[h].resp = "success"
      /\ cb[h].resp \in {"success", UnauthorizedException, NotFoundException}
      /\ cb[h].resp = UnauthorizedException <=> ~SignatureMatches(cb[h])

\* both a callback that wrote the row and a later one with another code
\* that found it settled were acknowledged
C8_Witness ==
  \E h1, h2 \in CbIds :
    /\ cb[h1].log = "updated" /\ cb[h1].resp = "success"
    /\ cb[h2].log = "non-pending" /\ cb[h2].resp = "success"
    /\ cb[h1].dto.orderStatus # cb[h2].dto.orderStatus
    /\ cb[h2].dto.orderStatus \notin TerminalCodes

\* the final status the code table gives a status code
MappedStatus(code) == IF code \in {"1", "3"} THEN SUCCESS ELSE FAILED

\* C9: a verified callback that finds its transaction non-terminal goes on
\* to update it, with SUCCESS for orderStatus '1' and '3' and FAILED for
\* '2'; the update sets that status on the row and is answered 'success'.
C9_CodeTableApplied ==
  [][\A h \in CbIds :
       /\ (/\ cb[h].pc = "finding" /\ cb'[h].pc # "finding"
           /\ cb'[h].txId # 0
           /\ RowOf(cb'[h]).status \in {PENDING, PROCESSING}
           /\ cb[h].dto.orderStatus \in TerminalCodes)
          => /\ cb'[h].pc = "updating"
             /\ cb'[h].update.status = MappedStatus(cb[h].dto.orderStatus)
       /\ (AppliesUpdate(h) /\ cb[h].dto.orderStatus \in TerminalCodes)
          => /\ RowAfter(cb[h]).status = MappedStatus(cb[h].dto.orderStatus)
             /\ cb'[h].resp = "success"]_vars

\* a deposit settled as SUCCESS by a callback with orderStatus '1', and a
\* transaction settled as SUCCESS by '3' or as FAILED by '2'
C9_Witness ==
  \E h \in CbIds :
    /\ cb[h].svc = "deposit" /\ cb[h].log = "updated" /\ cb[h].resp = "success"
    /\ cb[h].dto.orderStatus = "1"
    /\ deposits[cb[h].txId].status = SUCCESS
    /\ deposits[cb[h].txId].paymentStatus = "1"

\* C10: a verified callback with orderStatus '0' takes no terminal action:
\* the update it applies leaves a PENDING or PROCESSING transaction
\* non-terminal, so that a later '1' can still settle it.
C10_ProcessingCodeKeepsRowOpen ==
  [][\A h \in CbIds :
       AppliesUpdate(h) /\ cb[h].dto.orderStatus = "0"
         /\ RowOf(cb[h]).status \in {PENDING, PROCESSING}
       => RowAfter(cb[h]).status \in {PENDING, PROCESSING}]_vars

\* the status codes of CallbackStatusEnum
KnownCodes == {CB_PROCESSING, CB_SUCCESS, CB_FAILED, CB_MANUAL_SUCCESS}

\* C11: a verified callback whose orderStatus is outside the known set is
\* handled as a failure and never sets a transaction to SUCCESS: the step
\* that applies its update leaves the row FAILED and makes no row SUCCESS
\* that was not SUCCESS before.
C11_UnknownCodeNeverSucceeds ==
  [][\A h \in CbIds :
       AppliesUpdate(h) /\ cb[h].dto.orderStatus \notin KnownCodes =>
         /\ RowAfter(cb[h]).status = FAILED
         /\ \A i \in 1..Len(deposits) :
              deposits'[i].status = SUCCESS => deposits[i].status = SUCCESS
         /\ \A i \in 1..Len(withdraws) :
              withdraws'[i].status = SUCCESS => withdraws[i].status = SUCCESS]_vars

\* a verified callback with an unknown code was applied and acknowledged,
\* and the row it was applied to is FAILED with that code recorded
C11_Witness ==
  \E h \in CbIds :
    /\ cb[h].pc = "done" /\ cb[h].log = "updated" /\ cb[h].resp = Acknowledgement
    /\ cb[h].dto.orderStatus \notin KnownCodes
    /\ SignatureMatches(cb[h])
    /\ RowOf(cb[h]).status = FAILED
    /\ RowOf(cb[h]).paymentStatus = cb[h].dto.orderStatus

\* the row a creation request has created
RowOfReq(q) == IF q.kind = "deposit" THEN deposits[q.id] ELSE withdraws[q.id]

\* C12: the order number is on the row before the provider is called: in
\* every state in which a creation request has posted its payload, the row
\* it created carries the order number of that payload, so a lookup by that
\* number finds the row.
C12_OrderNoStoredBeforeProviderCall ==
  \A r \in ReqIds :
    req[r].calls > 0 =>
      /\ RowOfReq(req[r]).systemOrderNo = req[r].payload.orderNo
      /\ OrderStored(req[r].payload.orderNo)

\* C13: order numbers are unique: no two rows, of either collection, carry
\* the same order number, whatever the sites and clock readings of the
\* requests that created them.
C13_OrderNoUnique ==
  /\ \A i, j \in 1..Len(deposits) :
       i # j /\ deposits[i].systemOrderNo # None =>
         deposits[i].systemOrderNo # deposits[j].systemOrderNo
  /\ \A i, j \in 1..Len(withdraws) :
       i # j => withdraws[i].systemOrderNo # withdraws[j].systemOrderNo
  /\ \A i \in 1..Len(deposits), j \in 1..Len(withdraws) :
       deposits[i].systemOrderNo # withdraws[j].systemOrderNo

\* request r, a deposit, takes the step from `from` to `to`
DepositStep(r, from, to) ==
  req'[r].kind = "deposit" /\ req[r].pc = from /\ req'[r].pc = to

\* C14: a deposit's row is created PENDING before the provider is called,
\* and when the provider answers '000' the row gets the provider's
\* reference while its status stays PENDING; acceptance never makes a
\* deposit terminal.
C14_DepositAcceptanceKeepsPending ==
  [][\A r \in ReqIds :
       /\ DepositStep(r, "idle", "created") =>
            /\ req'[r].calls = 0
            /\ Len(deposits') = Len(deposits) + 1
            /\ deposits'[req'[r].id].status = PENDING
       /\ DepositStep(r, "created", "posted") =>
            /\ req'[r].calls = 1
            /\ deposits'[req[r].id].status = PENDING
       /\ DepositStep(r, "posted", "done") /\ req'[r].respCode = "000" =>
            /\ deposits[req[r].id].status = PENDING
            /\ deposits'[req[r].id].status = PENDING
            /\ deposits'[req[r].id].systemRef # None
            /\ deposits'[req[r].id].systemRef = "PO:" \o req[r].payload.orderNo]_vars

\* a deposit has been accepted by the provider: its call returned, and its
\* row is PENDING with the provider's reference set
C14_Witness ==
  \E r \in ReqIds :
    /\ req[r].kind = "deposit" /\ req[r].pc = "done" /\ req[r].respCode = "000"
    /\ req[r].result = "ok"
    /\ deposits[req[r].id].status = PENDING
    /\ deposits[req[r].id].systemRef # None

\* the row of request q after the step
RowOfReqAfter(q) == IF q.kind = "deposit" THEN deposits'[q.id] ELSE withdraws'[q.id]

\* request r receives the provider's answer or the failure of its call
ReceivesOutcome(r) == req[r].pc = "posted" /\ req'[r].pc = "done"

\* C15: when the provider answers a creation request, of a deposit or of a
\* withdraw, with a response code other than '000', the row becomes FAILED,
\* no provider reference is set on it and the caller receives the
\* provider-rejected error.
C15_RejectionFailsRow ==
  [][\A r \in ReqIds :
       ReceivesOutcome(r) /\ req'[r].respCode \in RespCodes \ {"000"} =>
         /\ RowOfReqAfter(req[r]).status = FAILED
         /\ RowOfReqAfter(req[r]).systemRef = None
         /\ req'[r].result = "ProviderRejected"]_vars

WithdrawLifecycle ==
  {<<PENDING, PROCESSING>>, <<PENDING, FAILED>>,
   <<PROCESSING, SUCCESS>>, <<PROCESSING, FAILED>>}

\* the status changes of the deposit lifecycle
DepositLifecycle == {<<PENDING, SUCCESS>>, <<PENDING, FAILED>>}

\* C17: lifecycle shape: a withdraw goes from PENDING to PROCESSING when the
\* provider accepts the request and from PROCESSING to SUCCESS or FAILED on
\* a callback (or from PENDING to FAILED when the request is rejected); a
\* deposit goes from PENDING directly to SUCCESS or FAILED and is never
\* PROCESSING.  Rows are created PENDING and no step changes a status in
\* any other way.
C17_LifecycleShape ==
  [][/\ \A i \in 1..Len(withdraws') :
          IF i \in 1..Len(withdraws)
          THEN \/ withdraws'[i].status = withdraws[i].status
               \/ <<withdraws[i].status, withdraws'[i].status>> \in WithdrawLifecycle
          ELSE withdraws'[i].status = PENDING
     /\ \A i \in 1..Len(deposits') :
          IF i \in 1..Len(deposits)
          THEN \/ deposits'[i].status = deposits[i].status
               \/ <<deposits[i].status, deposits'[i].status>> \in DepositLifecycle
          ELSE deposits'[i].status = PENDING]_vars

\* the settlement time a row stores: successedAt of a deposit; the Withdraw
\* schema has no path for one
SettledAt(row) == IF "successedAt" \in DOMAIN row THEN row.successedAt ELSE NoTime

\* the credited amount a row stores
CreditedAmount(row) ==
  IF "creditAmount" \in DOMAIN row THEN row.creditAmount ELSE row.withdrawAmount

\* C18: the settlement fields are written together with the terminal
\* status: whenever a callback handler's update leaves a row SUCCESS or
\* FAILED, the row has its settlement time, credited amount (the callback's
\* orderAmount) and fee set.
C18_SettlementWrittenWithStatus ==
  [][\A h \in CbIds :
       AppliesUpdate(h) /\ RowAfter(cb[h]).status \in Terminal =>
         /\ SettledAt(RowAfter(cb[h])) # NoTime
         /\ CreditedAmount(RowAfter(cb[h])) = OrZero(ParseFloat(cb[h].dto.orderAmount))
         /\ RowAfter(cb[h]).fee # NoNum]_vars

\* C19: every creation request that has been sent to the provider carries
\* a signature, and the signature is the Signer's digest, under the key the
\* caller supplied, of exactly the payload that was sent.
C19_PostedPayloadSigned ==
  \A r \in ReqIds :
    req[r].calls > 0 =>
      /\ "sign" \in DOMAIN req[r].payload
      /\ req[r].payload["sign"] = generateSign(WithoutSign(req[r].payload), req[r].signKey)

\* C20: a creation request calls the provider at most once: no request has
\* posted its payload more than once, and a request that ended, with a
\* rejection and with a network failure as well, has posted it exactly once.
C20_AtMostOneProviderCall ==
  \A r \in ReqIds :
    /\ req[r].calls <= 1
    /\ req[r].pc = "done" => req[r].calls = 1

\* a request ended with a provider rejection and another with a network
\* failure, each after a single call to the provider
C20_Witness ==
  \E r1, r2 \in ReqIds :
    /\ req[r1].pc = "done" /\ req[r1].result = "ProviderRejected" /\ req[r1].calls = 1
    /\ req[r2].pc = "done" /\ req[r2].result = "UpstreamError" /\ req[r2].calls = 1

\* C21: the unified endpoint hands every callback to the reconciler of the
\* kind of request its order number was generated for: a callback carrying
\* the order number of a withdraw goes to the withdraw reconciler, one
\* carrying the order number of a deposit to the deposit reconciler,
\* whatever the site.
C21_DispatchByKind ==
  \A h \in CbIds, r \in ReqIds :
    (cb[h].pc # "idle" /\ req[r].orderNo # None
       /\ cb[h].dto.orderNo = req[r].orderNo)
      => cb[h].svc = req[r].kind

\* the request that created the row handler c has looked up
CreatorOf(c) == {r \in ReqIds : req[r].kind = c.svc /\ req[r].id = c.txId}

\* C22: a callback changes the status of a transaction only if its
\* signature is the digest under the secret key that the originator
\* supplied when the transaction's request was initiated.
C22_StatusChangeNeedsOriginatorKey ==
  [][\A h \in CbIds :
       AppliesUpdate(h) /\ RowAfter(cb[h]).status # RowOf(cb[h]).status =>
         \E r \in CreatorOf(cb[h]) :
           cb[h].dto.sign = generateSign(WithoutSign(cb[h].dto), req[r].signKey)]_vars

\* request r has created its row
HasRow(r) == req[r].id > 0

\* C23: the amount and the order number of a transaction never change once
\* recorded: in every state each row holds the amount its request asked for
\* and, once an order number is on it, the order number its request
\* generated, whatever acceptance, rejection and callback steps have run
\* and whatever orderAmount the callbacks carried.
C23_AmountAndOrderNoImmutable ==
  \A r \in ReqIds :
    HasRow(r) =>
      /\ RowOfReq(req[r]).amount = req[r].amount
      /\ RowOfReq(req[r]).systemOrderNo \in {None, req[r].orderNo}
      /\ req[r].kind = "withdraw" => RowOfReq(req[r]).systemOrderNo = req[r].orderNo
      /\ req[r].respCode = "000" => RowOfReq(req[r]).systemOrderNo = req[r].orderNo

\* a callback reporting another amount than the one asked for was applied
\* to the row of an accepted request, which still holds the amount asked
\* for and its order number
C23_Witness ==
  \E r \in ReqIds, h \in CbIds :
    /\ HasRow(r) /\ req[r].pc = "done" /\ req[r].respCode = "000"
    /\ cb[h].pc = "done" /\ cb[h].log = "updated"
    /\ cb[h].svc = req[r].kind /\ cb[h].txId = req[r].id
    /\ cb[h].dto.orderAmount = "99.50"
    /\ CreditedAmount(RowOfReq(req[r])) = 9950
    /\ RowOfReq(req[r]).amount = 100
    /\ RowOfReq(req[r]).systemOrderNo = cb[h].dto.orderNo

\* C24: rows are never deleted: in every state each collection holds the
\* row of every request that created one, terminal rows included, and
\* nothing else.
C24_RowsNeverDeleted ==
  /\ \A r \in ReqIds :
       HasRow(r) =>
         /\ req[r].id \in 1..Len(IF req[r].kind = "deposit" THEN deposits ELSE withdraws)
         /\ RowOfReq(req[r]).site = req[r].site
  /\ Len(deposits) = Cardinality({r \in ReqIds : HasRow(r) /\ req[r].kind = "deposit"})
  /\ Len(withdraws) = Cardinality({r \in ReqIds : HasRow(r) /\ req[r].kind = "withdraw"})

\* the request has ended, callbacks have settled its row as FAILED and a
\* later callback found it settled, and the row is still stored
C24_Witness ==
  \E r \in ReqIds, h1, h2 \in CbIds :
    /\ HasRow(r) /\ req[r].pc = "done"
    /\ RowOfReq(req[r]).status = FAILED
    /\ cb[h1].svc = req[r].kind /\ cb[h1].txId = req[r].id /\ cb[h1].log = "updated"
    /\ cb[h2].svc = req[r].kind /\ cb[h2].txId = req[r].id /\ cb[h2].log = "non-pending"

\* C25: the Signer is deterministic and independent of the order of its
\* input: the signature computed for a mapping and a key is the signature
\* computed again for the same mapping, and for the same entries enumerated
\* in any other order.
C25_SignerOrderIndependent ==
  sig.pc = "signed" =>
    /\ generateSignIn(sig.params, sig.order, sig.signKey) = sig.out
    /\ generateSign(sig.params, sig.signKey) = sig.out
    /\ \A o \in Perms(DOMAIN sig.params) :
         generateSignIn(sig.params, o, sig.signKey) = sig.out

\* a mapping with three retained entries was signed with its entries
\* enumerated in descending order of the keys
C25_Witness ==
  /\ sig.pc = "signed"
  /\ sig.order = <<"ab", "a", "B">>
  /\ \A k \in DOMAIN sig.params : sig.params[k] = "1"
  /\ sig.out = Md5Hex("B=1&a=1&ab=1&Key=K")

\* the entries the Signer is to retain: value neither empty nor absent,
\* name other than sign
Kept(params) ==
  [k \in {x \in DOMAIN params : params[x] \notin {"", None} /\ x # "sign"} |-> params[k]]

\* C26: the Signer ignores entries whose value is the empty string or
\* absent and the entry named sign: the signature of a mapping is the
\* signature of its retained entries alone, and adding an empty or absent
\* entry, or a sign entry of any value, leaves the signature as it is.
C26_SignerIgnoresEmptyAndSign ==
  sig.pc = "signed" =>
    /\ generateSign(Kept(sig.params), sig.signKey) = sig.out
    /\ \A n \in SigNames \ DOMAIN sig.params, v \in {"", None} :
         generateSign(sig.params @@ (n :> v), sig.signKey) = sig.out
    /\ \A v \in SigValues \cup {sig.out} :
         generateSign(WithSignField(sig.params, v), sig.signKey) = sig.out

\* a mapping with one retained entry, one empty entry and a sign entry was
\* signed, and the signature is that of the retained entry alone
C26_Witness ==
  /\ sig.pc = "signed"
  /\ DOMAIN sig.params = {"B", "a", "sign"}
  /\ sig.params["B"] = "1" /\ sig.params["a"] = "" /\ sig.params["sign"] = "1"
  /\ sig.out = Md5Hex("B=1&Key=K")

\* the names of SigNames that can be retained, in ascending ASCII order:
\* 'B' is 66, 'a' is 97, and a string precedes its extensions
AsciiSortedNames == <<"B", "a", "ab">>

\* strings joined by '&'
RECURSIVE AmpJoin(_)
AmpJoin(pieces) ==
  IF Len(pieces) = 0 THEN ""
  ELSE IF Len(pieces) = 1 THEN pieces[1]
  ELSE pieces[1] \o "&" \o AmpJoin(Tail(pieces))

\* the string the Signer is to hash for a mapping over SigNames
ExpectedSignString(params, signKey) ==
  LET kept == Kept(params)
      names == SelectSeq(AsciiSortedNames, LAMBDA k : k \in DOMAIN kept)
  IN AmpJoin([i \in 1..Len(names) |-> names[i] \o "=" \o kept[names[i]]])
       \o "&Key=" \o signKey

\* C27: the string the Signer hashes is the retained entries as key=value
\* in ascending case-sensitive ASCII order of the keys, joined by '&', then
\* '&Key=' and the secret key; {merchantId:'M1', orderAmount:'100.00'} with
\* key 'K' gives 'merchantId=M1&orderAmount=100.00&Key=K'.
C27_SignStringFormat ==
  /\ SignString([merchantId |-> "M1", orderAmount |-> "100.00"], "K")
       = "merchantId=M1&orderAmount=100.00&Key=K"
  /\ SignStringIn([merchantId |-> "M1", orderAmount |-> "100.00"],
                  <<"orderAmount", "merchantId">>, "K")
       = "merchantId=M1&orderAmount=100.00&Key=K"
  /\ sig.pc = "signed" =>
       /\ SignStringIn(sig.params, sig.order, sig.signKey)
            = ExpectedSignString(sig.params, sig.signKey)
       /\ sig.out = Md5Hex(ExpectedSignString(sig.params, sig.signKey))

\* a mapping with an upper-case and a lower-case key was signed with the
\* lower-case key enumerated first, and the upper-case key is hashed first
C27_Witness ==
  /\ sig.pc = "signed"
  /\ sig.order = <<"a", "sign", "B">>
  /\ sig.params["a"] = "1" /\ sig.params["B"] = "1"
  /\ sig.out = Md5Hex("B=1&a=1&Key=K")

\* the signature a payload supplies, None when it has no sign field
SuppliedSign(dto) == IF "sign" \in DOMAIN dto THEN dto["sign"] ELSE None

\* C28: the Verifier returns true if and only if the signature recomputed
\* over the payload without its sign field equals the supplied signature
\* exactly: a supplied signature that differs from it only in case, or is
\* empty or missing, gives false.
C28_VerifierIffExactMatch ==
  (sig.pc = "verified" /\ sig.hasDto) =>
    /\ sig.out \in {"true", "false"}
    /\ sig.out = "true" <=>
         SuppliedSign(sig.params) = Md5Hex(ExpectedSignString(sig.params, sig.signKey))

\* a payload with a retained entry and the right signature was verified
\* and accepted
C28_Witness ==
  /\ sig.pc = "verified" /\ sig.hasDto /\ sig.out = "true"
  /\ "B" \in DOMAIN sig.params /\ sig.params["B"] = "1"
  /\ SuppliedSign(sig.params) = Md5Hex("B=1&Key=K")

\* C29: the Verifier never throws: called with any payload, with a payload
\* that has no sign field, with no payload or with no key, it ends by
\* returning true or false.
C29_VerifierNeverThrows ==
  sig.pc = "verified" => sig.out \in {"true", "false"}

\* the deposit collection after the single-statement conditional update:
\* the fields are written only if the row is PENDING at the write
AtomicUpdatePayment(rows, id, upd) ==
  IF rows[id].status = PENDING THEN UpdatePayment(rows, id, upd) ELSE rows

\* the withdraw collection after the single-statement conditional update:
\* the fields are written only if the row is PENDING or PROCESSING at the
\* write
AtomicWithdrawUpdateOne(rows, id, upd) ==
  IF rows[id].status \in {PENDING, PROCESSING}
  THEN WithdrawUpdateOne(rows, id, upd)
  ELSE rows

\* C30: the guarded update of the callback handlers behaves as one atomic
\* conditional update on the row's status: whenever a handler applies its
\* update, the collection afterwards is the one the compare-and-set on the
\* status at that moment produces, so every interleaving of handlers on one
\* order is an execution of the atomic version.
C30_UpdateRefinesCompareAndSet ==
  [][\A h \in CbIds :
       AppliesUpdate(h) =>
         /\ cb[h].svc = "deposit" =>
              deposits' = AtomicUpdatePayment(deposits, cb[h].txId, cb[h].update)
         /\ cb[h].svc = "withdraw" =>
              withdraws' = AtomicWithdrawUpdateOne(withdraws, cb[h].txId, cb[h].update)]_vars

\* the fields of a callback as the provider sent them: the payload a handler
\* received without the signKey parameter of the request
CallbackFields(dto) == [k \in DOMAIN dto \ {"signKey"} |-> dto[k]]

\* the handler refused the delivery at the signature check
Rejected(c) == c.resp = UnauthorizedException

\* C31: GET and POST deliveries are treated alike: two deliveries with the
\* same provider callback fields, the same signature and the same secret
\* key, whichever method delivered them and whether the key came in the
\* signKey query parameter or in the x-sign-key header, get the same
\* verification result.
C31_GetAndPostAlike ==
  \A g \in CbIds : \A p \in CbIds :
    ( /\ cb[g].pc # "idle" /\ cb[p].pc # "idle"
      /\ CallbackFields(cb[g].dto) = CallbackFields(cb[p].dto)
      /\ cb[g].signKey = cb[p].signKey )
    => (Rejected(cb[g]) <=> Rejected(cb[p]))

\* handler c has answered 'success' to a callback that reports a final
\* outcome by code '1' or '2'
AcknowledgedOutcome(c) ==
  /\ c.pc = "done"
  /\ c.resp = Acknowledgement
  /\ c.dto.orderStatus \in {CB_SUCCESS, CB_FAILED}

\* C32: a verified callback with orderStatus '1' or '2' for an accepted
\* request, redelivered until it is answered 'success', settles the
\* transaction for good; in particular, once such a callback has been
\* answered 'success', the row it names is SUCCESS or FAILED in every later
\* state.
C32_AcknowledgedStaysTerminal ==
  \A h \in CbIds :
    AcknowledgedOutcome(cb[h]) => RowOf(cb[h]).status \in Terminal

\* a row as create left it: PENDING, no provider reference and none of the
\* fields a settlement writes
AsCreated(row) ==
  /\ row.status = PENDING
  /\ row.systemRef = None
  /\ row.fee = NoNum
  /\ row.paymentStatus = None

\* the call of request r ends in this step with a network or timeout error
CallFails(r) == ReceivesOutcome(r) /\ req'[r].respCode = NetworkError

C34_CallbackTouchesOnlyItsRow ==
  [][\A h \in CbIds :
       cb'[h] # cb[h] =>
         /\ Len(deposits') = Len(deposits)
         /\ Len(withdraws') = Len(withdraws)
         /\ \A i \in 1..Len(deposits) :
              deposits'[i] # deposits[i] =>
                /\ cb[h].svc = "deposit" /\ i = cb[h].txId
                /\ deposits[i].systemOrderNo = cb[h].dto.orderNo
         /\ \A i \in 1..Len(withdraws) :
              withdraws'[i] # withdraws[i] =>
                /\ cb[h].svc = "withdraw" /\ i = cb[h].txId
                /\ withdraws[i].systemOrderNo = cb[h].dto.orderNo]_vars

\* two withdraws exist, a callback has settled one of them and the other is
\* still as created
C34_Witness ==
  /\ Len(withdraws) = 2
  /\ \E h \in CbIds :
       /\ cb[h].pc = "done" /\ cb[h].log = "updated" /\ cb[h].svc = "withdraw"
       /\ withdraws[cb[h].txId].status \in Terminal
       /\ \E j \in 1..2 : j # cb[h].txId /\ AsCreated(withdraws[j])

\* C35: signing and verifying round-trip: a payload carrying the signature
\* made for it with key K is accepted with K; it is rejected with any other
\* key, and after another value or another name has been given to one of
\* its retained fields.
C35_RoundTrip ==
  sig.pc = "roundtrip" =>
    /\ sig.tamper = "none" => sig.out = "true"
    /\ sig.tamper \in {"key", "value", "name"} => sig.out = "false"

\* a payload with a retained field was signed, one value was replaced by a
\* value holding the separators, and the Verifier answered
C35_Witness ==
  /\ sig.pc = "roundtrip" /\ sig.tamper = "value"
  /\ "a" \in DOMAIN sig.params /\ sig.params["a"] = "1&ab=1"
  /\ sig.out = "false"

\* C36: the hashed string identifies the retained parameter set: a signature
\* made for one mapping is not valid, under the same key, for a mapping that
\* differs from it after filtering, values holding '&' or '=' included.
C36_SignStringIdentifiesParams ==
  (sig.pc = "roundtrip" /\ sig.tamper = "mapping") => sig.out = "false"

\* C37: the two Signer and Verifier implementations agree: whatever
\* CopoService.generateSign returned for a mapping and key,
\* PaymentService.generateSign returns for them, and whatever
\* CopoService.verifyCallbackSignature ended with for a payload and key,
\* true, false or the TypeError, PaymentService.verifyCallbackSignature
\* ends with.
C37_ImplementationsAgree ==
  /\ sig.pc = "signed" => sig.out = PaymentGenerateSign(sig.params, sig.signKey)
  /\ sig.pc \in {"verified", "roundtrip"} =>
       sig.out = PaymentVerifierOutcome(sig.hasDto, sig.params, sig.signKey)

\* CopoService accepted a payload that has an empty entry and a retained one
C37_Witness ==
  /\ sig.pc = "verified" /\ sig.out = "true"
  /\ \E k \in DOMAIN sig.params : k # "sign" /\ sig.params[k] = ""
  /\ \E k \in DOMAIN sig.params : k # "sign" /\ sig.params[k] = "1"

====
